---------------------------- MODULE Spec2Model ----------------------------
(***************************************************************************)
(* Galactic-Moon: the moon position calculator (src/moon.py) and the       *)
(* display loop that plots it on a 53x11 Galactic Unicorn (src/main.py).   *)
(*                                                                         *)
(* Numbers.  The program computes in floating point; the model computes in *)
(* fixed point:                                                            *)
(*   - angles of moon.py and of get_background_color are whole degrees     *)
(*     (Pi == 180), so math.radians / math.degrees are changes of unit;    *)
(*   - sines and cosines are the values of SinTable, sin(a) rounded to     *)
(*     1/Scale; a product is rounded to 1/Scale as a float product is      *)
(*     rounded to its precision (Mul);                                     *)
(*   - asin, acos and atan2 return the table angle at or just inside the   *)
(*     exact one, and asin/acos of an argument outside [-1, 1] raise, as   *)
(*     math.asin / math.acos raise ValueError;                             *)
(*   - altitude and azimuth handed to main.py are in 1/Res degree, and     *)
(*     int() is truncation of the exact quotient;                          *)
(*   - days since J2000 are counted in 1/days_to_secs day (seconds).       *)
(* The ephemeris series of moon_position and sun_position (moon.py lines   *)
(* 117-128 and 59-71) are taken at their outputs: right ascensions in the  *)
(* range of atan2, declinations within the obliquity (plus the lunar       *)
(* latitude term), and the Greenwich sidereal angle of the date.           *)
(***************************************************************************)
EXTENDS Integers, Sequences, FiniteSets

VARIABLES
    \* moon.py: MoonPosition.moon_position and its callees
    lat, lng, theta, ra, dec, sun_ra, sun_dec,
    H, alt_deg, az_in, az_deg, brightness, moon_pc,
    fired_add, fired_sub,
    \* main.py: get_background_color
    sun_H, sun_H0, sun_alt_deg, bg_color, bg_pc,
    \* moon.py: to_days_J2000
    date, dt, prev_date, prev_dt, day_pc, calls,
    \* main.py: map_moon_position / draw_moon / the polling loop
    altitude, azimuth, moon_frac, pos, surface, display, pixel_calls,
    updates, pc, iter

moonVars == <<lat, lng, theta, ra, dec, sun_ra, sun_dec,
              H, alt_deg, az_in, az_deg, brightness, moon_pc,
              fired_add, fired_sub>>
bgVars   == <<sun_H, sun_H0, sun_alt_deg, bg_color, bg_pc>>
dayVars  == <<date, dt, prev_date, prev_dt, day_pc, calls>>
drawVars == <<altitude, azimuth, moon_frac, pos, surface, display,
              pixel_calls, updates, pc, iter>>
vars     == <<moonVars, bgVars, dayVars, drawVars>>

---------------------------------------------------------------------------
(* Fixed-point trigonometry (the math module as moon.py uses it)           *)

\* sin(0), sin(1), ..., sin(90) degrees, rounded to 1/10000.
SinTable ==
   << 0, 175, 349, 523, 698, 872, 1045, 1219, 1392, 1564,
      1736, 1908, 2079, 2250, 2419, 2588, 2756, 2924, 3090, 3256,
      3420, 3584, 3746, 3907, 4067, 4226, 4384, 4540, 4695, 4848,
      5000, 5150, 5299, 5446, 5592, 5736, 5878, 6018, 6157, 6293,
      6428, 6561, 6691, 6820, 6947, 7071, 7193, 7314, 7431, 7547,
      7660, 7771, 7880, 7986, 8090, 8192, 8290, 8387, 8480, 8572,
      8660, 8746, 8829, 8910, 8988, 9063, 9135, 9205, 9272, 9336,
      9397, 9455, 9511, 9563, 9613, 9659, 9703, 9744, 9781, 9816,
      9848, 9877, 9903, 9925, 9945, 9962, 9976, 9986, 9994, 9998,
      10000 >>

\* The fixed-point value of 1.0: sin(90 degrees).
Scale == SinTable[91]

\* math.pi, in the model's unit of angle.
Pi == 180

Abs(n) == IF n < 0 THEN -n ELSE n

\* n / d rounded to the nearest integer (ties away from zero), d > 0.
RoundDiv(n, d) ==
    IF n >= 0 THEN (2 * n + d) \div (2 * d)
              ELSE -((2 * (-n) + d) \div (2 * d))

\* A float product: the exact product rounded to the precision.
Mul(a, b) == RoundDiv(a * b, Scale)

\* math.sin of a whole number of degrees.
Sin(a) ==
    LET r == a % 360
    IN  IF r <= 90 THEN SinTable[r + 1]
        ELSE IF r <= 180 THEN SinTable[(180 - r) + 1]
        ELSE IF r <= 270 THEN -SinTable[(r - 180) + 1]
        ELSE -SinTable[(360 - r) + 1]

\* math.cos
Cos(a) == Sin(a + 90)

\* math.tan, for the declinations the ephemeris produces (|a| < 90).
Tan(a) == RoundDiv(Sin(a) * Scale, Cos(a))

\* math.asin: defined on [-1, 1] only, range [-90, 90].
AsinDefined(v) == Abs(v) <= Scale
AsinPos(v) == CHOOSE a \in 0..90 :
                 /\ SinTable[a + 1] <= v
                 /\ (a = 90 \/ SinTable[a + 2] > v)
Asin(v) == IF v >= 0 THEN AsinPos(v) ELSE -AsinPos(-v)

\* math.acos: defined on [-1, 1] only, range [0, 180].
AcosDefined(v) == Abs(v) <= Scale
Acos(v) == CHOOSE a \in 0..180 :
               /\ Cos(a) >= v
               /\ (a = 180 \/ Cos(a + 1) < v)

\* math.atan2(y, x), range [-180, 180]: 180 for y = +0 and x < 0.
Atan2Pos(y, x) ==
    IF y = 0 THEN (IF x < 0 THEN 180 ELSE 0)
    ELSE CHOOSE a \in 0..179 :
             /\ y * Cos(a) - x * Sin(a) >= 0
             /\ y * Cos(a + 1) - x * Sin(a + 1) < 0
Atan2(y, x) == IF y >= 0 THEN Atan2Pos(y, x) ELSE -Atan2Pos(-y, x)

---------------------------------------------------------------------------
(* src/moon.py                                                             *)

\* brightness is held in units of 1/(2*Scale), so that halving is exact.
BrightOne == 2 * Scale

\* sidereal_time(d, lw), with th the angle radians(280.16 + 360.9856235*d).
SiderealTime(th, lw) == th - lw

\* Mutant of AddStep: 360 added until the value is no longer negative.
AddStepLoop(az) == IF az < 0 THEN az + 360 * ((359 - az) \div 360) ELSE az

\* moon_position lines 140-141: the first correction.
AddStep(az) == IF az < 0 THEN az + 360 ELSE az

\* moon_position lines 142-143: the second correction, on the result of the
\* first.
SubStep(az) == IF az > 360 THEN az - 360 ELSE az

NormalizeAz(az) == SubStep(AddStep(az))

\* The argument of acos in moon_brightness.
PhaseCos(m_ra, m_dec, s_ra, s_dec) ==
    Mul(Sin(s_dec), Sin(m_dec))
      + Mul(Mul(Cos(s_dec), Cos(m_dec)), Cos(s_ra - m_ra))

\* moon_brightness raises ValueError when acos is handed more than 1.
BrightnessRaises(m_ra, m_dec, s_ra, s_dec) ==
    ~AcosDefined(PhaseCos(m_ra, m_dec, s_ra, s_dec))

\* moon_brightness: (1 + cos(phase_angle)) / 2, in units of 1/BrightOne.
IlluminatedFraction(phase_angle) == Scale + Cos(phase_angle)

MoonBrightness(m_ra, m_dec, s_ra, s_dec) ==
    IlluminatedFraction(Acos(PhaseCos(m_ra, m_dec, s_ra, s_dec)))

\* moon_position line 131.
HourAngle(th, lg, r) == SiderealTime(th, -lg) - r

\* The argument of asin in moon_position line 132 (and in
\* get_background_color line 110).
AltSin(la, de, h) ==
    Mul(Sin(la), Sin(de)) + Mul(Mul(Cos(la), Cos(de)), Cos(h))

\* moon_position lines 136-138: atan2, to degrees, plus 180.
AzRaw(la, de, h) ==
    Atan2(Sin(h), Mul(Cos(h), Sin(la)) - Mul(Tan(de), Cos(la))) + 180

\* moon_position raises where asin (line 132) or acos (line 149, through
\* moon_brightness) is handed an argument outside [-1, 1].
MoonPositionRaises(la, lg, th, r, de, s_ra, s_de) ==
    \/ ~AsinDefined(AltSin(la, de, HourAngle(th, lg, r)))
    \/ BrightnessRaises(r, de, s_ra, s_de)

---------------------------------------------------------------------------
(* SpecMoon: moon_position applied to the outputs of the ephemeris         *)

LatSet    == {-90, -60, -30, 0, 30, 60, 90}
LngSet    == {-180, -135, -90, -45, 0, 45, 90, 135, 180}
ThetaSet  == {0, 750}
RaSet     == {-180, -90, 0, 90, 180}
DecSet    == {-18, 0, 18}
SunDecSet == {-18, 0, 18}

IdleMoon ==
    /\ lat = 0 /\ lng = 0 /\ theta = 0 /\ ra = 0 /\ dec = 0
    /\ sun_ra = 0 /\ sun_dec = 0
    /\ H = 0 /\ alt_deg = 0 /\ az_in = 0 /\ az_deg = 0 /\ brightness = 0
    /\ moon_pc = "idle" /\ fired_add = FALSE /\ fired_sub = FALSE
IdleBg ==
    /\ sun_H = 0 /\ sun_H0 = 0 /\ sun_alt_deg = 0
    /\ bg_color = <<0, 0, 0>> /\ bg_pc = "idle"
IdleDays ==
    /\ date = 0 /\ dt = 0 /\ prev_date = 0 /\ prev_dt = 0
    /\ day_pc = "idle" /\ calls = 0
IdleDraw ==
    /\ altitude = 0 /\ azimuth = 0 /\ moon_frac = 0 /\ pos = <<>>
    /\ surface = [bg |-> <<0, 0, 0>>, px |-> {}]
    /\ display = [bg |-> <<0, 0, 0>>, px |-> {}, it |-> 0]
    /\ pixel_calls = 0 /\ updates = 0 /\ pc = "idle" /\ iter = 0

InitMoon ==
    /\ lat \in LatSet /\ lng \in LngSet /\ theta \in ThetaSet
    /\ ra \in RaSet /\ dec \in DecSet
    /\ sun_ra \in RaSet /\ sun_dec \in SunDecSet
    /\ H = 0 /\ alt_deg = 0 /\ az_in = 0 /\ az_deg = 0 /\ brightness = 0
    /\ moon_pc = "call" /\ fired_add = FALSE /\ fired_sub = FALSE
    /\ IdleBg /\ IdleDays /\ IdleDraw

\* moon_position(date, lat, lng) on the ephemeris outputs th, r, de, s_ra,
\* s_de: returns (az_deg, alt_deg, ., brightness), or raises.
MoonPositionCall(la, lg, th, r, de, s_ra, s_de) ==
    /\ H' = HourAngle(th, lg, r)
    /\ IF MoonPositionRaises(la, lg, th, r, de, s_ra, s_de)
       THEN /\ moon_pc' = "raised"
            /\ UNCHANGED <<alt_deg, az_in, az_deg, brightness,
                           fired_add, fired_sub>>
       ELSE /\ moon_pc' = "returned"
            /\ alt_deg' = Asin(AltSin(la, de, H'))
            /\ az_in' = AzRaw(la, de, H')
            /\ az_deg' = NormalizeAz(az_in')
            /\ fired_add' = (az_in' < 0)
            /\ fired_sub' = (AddStep(az_in') > 360)
            /\ brightness' = MoonBrightness(r, de, s_ra, s_de)

MoonPosition ==
    /\ moon_pc = "call"
    /\ MoonPositionCall(lat, lng, theta, ra, dec, sun_ra, sun_dec)
    /\ UNCHANGED <<lat, lng, theta, ra, dec, sun_ra, sun_dec>>
    /\ UNCHANGED <<bgVars, dayVars, drawVars>>

NextMoon == MoonPosition
SpecMoon == InitMoon /\ [][NextMoon]_vars

\* C1: for every instant, latitude in [-90, 90] and longitude in
\* [-180, 180], moon_position returns an azimuth in [0, 360), 360 itself
\* excluded, and an altitude in [-90, 90].
C1_AzimuthAltitudeRange ==
    moon_pc = "returned" =>
        /\ 0 <= az_deg /\ az_deg < 360
        /\ -90 <= alt_deg /\ alt_deg <= 90

---------------------------------------------------------------------------
(* SpecAz: the corrections of moon_position lines 140-143, as a function   *)
(* of the value they are handed                                            *)

AzSpan == 800

InitAz ==
    /\ az_in \in (-AzSpan)..AzSpan
    /\ az_deg = az_in
    /\ moon_pc = "normalize" /\ fired_add = FALSE /\ fired_sub = FALSE
    /\ lat = 0 /\ lng = 0 /\ theta = 0 /\ ra = 0 /\ dec = 0
    /\ sun_ra = 0 /\ sun_dec = 0 /\ H = 0 /\ alt_deg = 0 /\ brightness = 0
    /\ IdleBg /\ IdleDays /\ IdleDraw

NormalizeAzimuth ==
    /\ moon_pc = "normalize"
    /\ az_deg' = NormalizeAz(az_in)
    /\ fired_add' = (az_in < 0)
    /\ fired_sub' = (AddStep(az_in) > 360)
    /\ moon_pc' = "normalized"
    /\ UNCHANGED <<lat, lng, theta, ra, dec, sun_ra, sun_dec, H, alt_deg,
                   az_in, brightness>>
    /\ UNCHANGED <<bgVars, dayVars, drawVars>>

NextAz == NormalizeAzimuth
SpecAz == InitAz /\ [][NextAz]_vars

\* C7: the azimuth normalisation applies at most one correction of 360 per
\* call: below 0 it adds 360 once, otherwise above 360 it subtracts 360
\* once, never both; a value still out of range after the one correction is
\* returned as it is.
C7_SingleCorrection ==
    moon_pc = "normalized" =>
        /\ ~(fired_add /\ fired_sub)
        /\ fired_add <=> (az_in < 0)
        /\ fired_sub <=> (az_in > 360)
        /\ az_deg = IF az_in < 0 THEN az_in + 360
                    ELSE IF az_in > 360 THEN az_in - 360
                    ELSE az_in

\* A value more than one turn below zero: corrected once, still negative.
C7_Witness ==
    /\ moon_pc = "normalized"
    /\ az_in < -360 /\ fired_add /\ az_deg = az_in + 360 /\ az_deg < 0

---------------------------------------------------------------------------
(* SpecBright: moon_brightness called on equatorial coordinates            *)

BrRaSet     == {-180, -150, -120, -90, -60, -30, 0, 30, 60, 90, 120, 150, 180}
BrDecSet    == {-28, -18, -9, 0, 9, 18, 28}
BrSunDecSet == {-23, -18, -9, 0, 9, 18, 23}

InitBright ==
    /\ ra \in BrRaSet /\ dec \in BrDecSet
    /\ sun_ra \in BrRaSet /\ sun_dec \in BrSunDecSet
    /\ moon_pc = "call_brightness" /\ brightness = 0
    /\ lat = 0 /\ lng = 0 /\ theta = 0 /\ H = 0 /\ alt_deg = 0
    /\ az_in = 0 /\ az_deg = 0 /\ fired_add = FALSE /\ fired_sub = FALSE
    /\ IdleBg /\ IdleDays /\ IdleDraw

\* moon_brightness(moon_ra, moon_dec, sun_ra, sun_dec)
CallMoonBrightness ==
    /\ moon_pc = "call_brightness"
    /\ IF BrightnessRaises(ra, dec, sun_ra, sun_dec)
       THEN moon_pc' = "raised" /\ UNCHANGED brightness
       ELSE /\ moon_pc' = "returned"
            /\ brightness' = MoonBrightness(ra, dec, sun_ra, sun_dec)
    /\ UNCHANGED <<lat, lng, theta, ra, dec, sun_ra, sun_dec, H, alt_deg,
                   az_in, az_deg, fired_add, fired_sub>>
    /\ UNCHANGED <<bgVars, dayVars, drawVars>>

NextBright == CallMoonBrightness
SpecBright == InitBright /\ [][NextBright]_vars

\* C4: moon_brightness returns (1 + c)/2 for the cosine c of the phase
\* angle: a value in [0, 1], 1.0 when sun and moon have the same right
\* ascension and declination, 0.0 when they are diametrically opposite.
C4_BrightnessEndpoints ==
    moon_pc \in {"returned", "raised"} =>
        /\ moon_pc = "returned"
        /\ 0 <= brightness /\ brightness <= BrightOne
        /\ (ra = sun_ra /\ dec = sun_dec) => brightness = BrightOne
        /\ (sun_dec = -dec /\ (sun_ra - ra) % 360 = 180) => brightness = 0

---------------------------------------------------------------------------
(* src/main.py: get_background_color                                       *)

Day      == <<0, 0, 50>>
Twilight == <<50, 25, 0>>
Night    == <<0, 0, 0>>

\* Mutant of SubtractTurn: half a turn taken off.
SubtractHalfTurn(h) == h - Pi

\* Line 106: H -= 2 * math.pi
SubtractTurn(h) == h - 2 * Pi

\* Line 108: H += 2 * math.pi
AddTurn(h) == h + 2 * Pi

\* Mutant of BackgroundColor: Day from the horizon up.
BackgroundColorDayAtZero(alt) ==
    IF alt >= 0 THEN <<0, 0, 50>>
    ELSE IF alt < -18 THEN <<0, 0, 0>>
    ELSE <<50, 25, 0>>

\* Lines 113-122: the colour for a sun altitude in degrees.
BackgroundColor(alt) ==
    IF alt > 0 THEN Day
    ELSE IF alt < -18 THEN Night
    ELSE Twilight

\* The hour angle with both loops run to their end (lines 105-108).
RECURSIVE NormalizeHourAngle(_)
NormalizeHourAngle(h) ==
    IF h > Pi THEN NormalizeHourAngle(SubtractTurn(h))
    ELSE IF h < -Pi THEN NormalizeHourAngle(AddTurn(h))
    ELSE h

\* get_background_color raises where asin (line 110) is handed an argument
\* outside [-1, 1].
BackgroundRaises(la, lg, th, s_ra, s_de) ==
    ~AsinDefined(AltSin(la, s_de,
                        NormalizeHourAngle(HourAngle(th, lg, s_ra))))

\* get_background_color as a whole, where it returns.
GetBackgroundColor(la, lg, th, s_ra, s_de) ==
    BackgroundColor(Asin(AltSin(la, s_de,
                        NormalizeHourAngle(HourAngle(th, lg, s_ra)))))

---------------------------------------------------------------------------
(* SpecBg: get_background_color, its two loops step by step                *)

\* The sidereal angle of the date spans MaxTurns whole turns either way.
MaxTurns == 2

BgThetaSet == {360 * k : k \in (-MaxTurns)..MaxTurns}

\* Sun declinations (within the obliquity), with those that put the sun's
\* altitude at the pole on and beside the two thresholds.
BgSunDecSet == {-23, -19, -18, -17, -1, 0, 1, 18, 23}

BgDone == {"returned", "raised"}

InitBg ==
    /\ lat \in LatSet /\ lng \in LngSet /\ theta \in BgThetaSet
    /\ sun_ra \in RaSet /\ sun_dec \in BgSunDecSet
    /\ ra = 0 /\ dec = 0 /\ H = 0 /\ alt_deg = 0 /\ az_in = 0 /\ az_deg = 0
    /\ brightness = 0 /\ moon_pc = "idle"
    /\ fired_add = FALSE /\ fired_sub = FALSE
    /\ sun_H = 0 /\ sun_H0 = 0 /\ sun_alt_deg = 0
    /\ bg_color = Night /\ bg_pc = "start"
    /\ IdleDays /\ IdleDraw

\* Lines 91-102: the sun's position and its hour angle.
BgHourAngle ==
    /\ bg_pc = "start"
    /\ sun_H' = HourAngle(theta, lng, sun_ra)
    /\ sun_H0' = sun_H'
    /\ bg_pc' = "loop1"
    /\ UNCHANGED <<sun_alt_deg, bg_color>>
    /\ UNCHANGED <<moonVars, dayVars, drawVars>>

\* Lines 105-106: one turn of the first loop.
BgLoop1Step ==
    /\ bg_pc = "loop1" /\ sun_H > Pi
    /\ sun_H' = SubtractTurn(sun_H)
    /\ UNCHANGED <<sun_H0, sun_alt_deg, bg_color, bg_pc>>
    /\ UNCHANGED <<moonVars, dayVars, drawVars>>

\* Line 105: the first loop ends.
BgLoop1Exit ==
    /\ bg_pc = "loop1" /\ ~(sun_H > Pi)
    /\ bg_pc' = "loop2"
    /\ UNCHANGED <<sun_H, sun_H0, sun_alt_deg, bg_color>>
    /\ UNCHANGED <<moonVars, dayVars, drawVars>>

\* Lines 107-108: one turn of the second loop.
BgLoop2Step ==
    /\ bg_pc = "loop2" /\ sun_H < -Pi
    /\ sun_H' = AddTurn(sun_H)
    /\ UNCHANGED <<sun_H0, sun_alt_deg, bg_color, bg_pc>>
    /\ UNCHANGED <<moonVars, dayVars, drawVars>>

\* Lines 107-122: the second loop ends; the sun's altitude and the colour.
BgClassify ==
    /\ bg_pc = "loop2" /\ ~(sun_H < -Pi)
    /\ IF ~AsinDefined(AltSin(lat, sun_dec, sun_H))
       THEN bg_pc' = "raised" /\ UNCHANGED <<sun_alt_deg, bg_color>>
       ELSE /\ sun_alt_deg' = Asin(AltSin(lat, sun_dec, sun_H))
            /\ bg_color' = BackgroundColor(sun_alt_deg')
            /\ bg_pc' = "returned"
    /\ UNCHANGED <<sun_H, sun_H0>>
    /\ UNCHANGED <<moonVars, dayVars, drawVars>>

NextBg ==
    \/ BgHourAngle
    \/ BgLoop1Step
    \/ BgLoop1Exit
    \/ BgLoop2Step
    \/ BgClassify

SpecBg == InitBg /\ [][NextBg]_vars

\* The interpreter runs the function to its end: no step waits on anything.
FairSpecBg == SpecBg /\ WF_vars(NextBg)

\* C2: the classifier maps every sun altitude to exactly one of Day,
\* Twilight and Night: above 0 Day, below -18 Night, otherwise Twilight, so
\* 0 and -18 themselves are Twilight.
C2_BackgroundPartition ==
    bg_pc = "returned" =>
        /\ bg_color \in {Day, Twilight, Night}
        /\ (bg_color = Day) <=> (sun_alt_deg > 0)
        /\ (bg_color = Night) <=> (sun_alt_deg < -18)
        /\ (bg_color = Twilight) <=> (-18 <= sun_alt_deg /\ sun_alt_deg <= 0)

\* The sun exactly 18 degrees below the horizon: Twilight.
C2_Witness ==
    bg_pc = "returned" /\ sun_alt_deg = -18 /\ bg_color = Twilight

---------------------------------------------------------------------------
(* src/moon.py: to_days_J2000, in units of 1/days_to_secs day              *)

\* __init__ line 18
days_to_secs == 60 * 60 * 24

\* The Julian day number line 31 adds, and the one line 32 subtracts.
JulianUnixEpoch == 2440588
JulianJ2000 == 2451545

\* 2000-01-01T12:00:00Z in seconds since 1970: 10957 days and 12 hours,
\* 946728000.
J2000Instant == 10957 * (24 * 60 * 60) + 12 * 60 * 60

\* Mutant of JulianDate: the half day of line 31 left out.
JulianDateNoHalf(d) ==
    <<(d \div days_to_secs) + JulianUnixEpoch, d % days_to_secs>>

\* Line 31: date / days_to_secs - 0.5 + 2440588, as <<whole days, seconds>>.
JulianDate(d) ==
    <<(d \div days_to_secs) + JulianUnixEpoch,
      (d % days_to_secs) - (days_to_secs \div 2)>>

\* Line 32: julian_date - 2451545, in seconds.
ToDaysJ2000(d) ==
    (JulianDate(d)[1] - JulianJ2000) * days_to_secs + JulianDate(d)[2]

---------------------------------------------------------------------------
(* SpecDays: to_days_J2000 on successive instants                          *)

MaxCalls == 4

\* The loop's sleep (main.py line 174) and one day.
StepSet == {600, days_to_secs}

DateSet == {0, 86399, 43200, J2000Instant - days_to_secs,
            J2000Instant - 600, J2000Instant, 1715904000, 1715947200,
            2000000000}

InitDays ==
    /\ date \in DateSet
    /\ dt = 0 /\ prev_date = date /\ prev_dt = 0
    /\ day_pc = "call" /\ calls = 0
    /\ IdleMoon /\ IdleBg /\ IdleDraw

CallToDays ==
    /\ day_pc = "call"
    /\ dt' = ToDaysJ2000(date)
    /\ calls' = calls + 1
    /\ day_pc' = "returned"
    /\ UNCHANGED <<date, prev_date, prev_dt>>
    /\ UNCHANGED <<moonVars, bgVars, drawVars>>

Advance ==
    /\ day_pc = "returned" /\ calls < MaxCalls
    /\ \E step \in StepSet : date' = date + step
    /\ prev_date' = date /\ prev_dt' = dt
    /\ day_pc' = "call"
    /\ UNCHANGED <<dt, calls>>
    /\ UNCHANGED <<moonVars, bgVars, drawVars>>

NextDays ==
    \/ CallToDays
    \/ Advance

SpecDays == InitDays /\ [][NextDays]_vars

---------------------------------------------------------------------------
(* src/main.py: map_moon_position and draw_moon.  Altitude and azimuth are *)
(* in units of 1/Res degree.                                               *)

Res == 2

\* Lines 27-28.
AzEastDeg == 125
AzWestDeg == 235
az_east == AzEastDeg * Res
az_west == AzWestDeg * Res

\* The bounds of lines 57 and 68, and the spans of lines 59, 67 and 70.
AltMaxDeg == 90
AzMaxDeg == 359
RowSpan == 10
ColSpan == 26

\* The last column and the last row of the display (53 columns, 11 rows),
\* as the comments of lines 69 and 58 give them.
MaxCol == 52
MaxRow == 10

\* int(n / d): truncation toward zero, d > 0.
Trunc(n, d) == IF n >= 0 THEN n \div d ELSE -((-n) \div d)

\* Mutant of AltitudeValid: the horizon itself accepted.
AltitudeValidFromZero(alt) == 0 <= alt /\ alt < AltMaxDeg * Res

\* Line 57.
AltitudeValid(alt) == 0 < alt /\ alt < AltMaxDeg * Res

\* Line 59: int(10 - (altitude / 90.0 * 10))
MapRow(alt) ==
    Trunc(RowSpan * AltMaxDeg * Res - alt * RowSpan, AltMaxDeg * Res)

\* Line 65.
AzimuthEast(az) == 0 <= az /\ az <= az_east

\* Line 68.
AzimuthWest(az) == az_west <= az /\ az <= AzMaxDeg * Res

\* Line 67: int((az_east - azimuth) / az_east * 26)
MapColEast(az) == Trunc((az_east - az) * ColSpan, az_east)

\* Line 70: int((azimuth - az_west) / (359 - az_west) * 26) + 26
MapColWest(az) ==
    Trunc((az - az_west) * ColSpan, AzMaxDeg * Res - az_west) + ColSpan

\* map_moon_position: <<x, y>>, or <<>> for (None, None).
MapMoonPosition(alt, az) ==
    IF ~AltitudeValid(alt) THEN <<>>
    ELSE IF AzimuthEast(az) THEN <<MapColEast(az), MapRow(alt)>>
    ELSE IF AzimuthWest(az) THEN <<MapColWest(az), MapRow(alt)>>
    ELSE <<>>

\* Line 133: int(max(20, brightness * 255)), brightness in 1/BrightOne.
MinIntensity == 20
MaxIntensity == 255
Intensity(frac) ==
    LET scaled == frac * MaxIntensity
    IN  Trunc(IF MinIntensity * BrightOne > scaled
              THEN MinIntensity * BrightOne ELSE scaled, BrightOne)

\* graphics.pixel(x, y) with the pen set: the pixel takes the pen's colour.
\* `it` records the loop iteration that wrote it.
SetPixel(s, x, y, pen, it) ==
    [s EXCEPT !.px = {q \in s.px : ~(q.x = x /\ q.y = y)}
                       \cup {[x |-> x, y |-> y, pen |-> pen, it |-> it]}]

\* Mutant of ClearSurface: the pixels drawn before are kept.
ClearKeepsPixels(s, pen) == [s EXCEPT !.bg = pen]

\* graphics.clear() with the pen set: every pixel takes the pen's colour.
ClearSurface(s, pen) == [bg |-> pen, px |-> {}]

\* Lines 140-143: the four pixels, in the order written.
MoonPixels(x, y) ==
    << <<x, y>>, <<x + 1, y>>, <<x, y - 1>>, <<x + 1, y - 1>> >>

RECURSIVE WritePixels(_, _, _, _)
WritePixels(s, coords, pen, it) ==
    IF coords = <<>> THEN s
    ELSE WritePixels(SetPixel(s, Head(coords)[1], Head(coords)[2], pen, it),
                     Tail(coords), pen, it)

MoonPen(frac) == <<Intensity(frac), Intensity(frac), Intensity(frac)>>

\* draw_moon lines 127-143: the surface after the call.
DrawMoonSurface(s, alt, az, frac, it) ==
    LET p == MapMoonPosition(alt, az)
    IN  IF p = <<>> THEN s
        ELSE WritePixels(s, MoonPixels(p[1], p[2]), MoonPen(frac), it)

\* The pixels of a surface that are not the observer's.
ObserverPen == <<0, 255, 0>>
MoonPx(s) == {q \in s.px : q.pen # ObserverPen}

InGrid(q) == 0 <= q.x /\ q.x <= MaxCol /\ 0 <= q.y /\ q.y <= MaxRow

---------------------------------------------------------------------------
(* SpecDraw: draw_moon called on a cleared surface                         *)

\* Degrees beyond [0, 90] and [0, 360] that the inputs reach.
Margin == 2

AltSet == (-Margin * Res)..((AltMaxDeg + Margin) * Res)
AzSet  == (-Margin * Res)..((AzMaxDeg + 1 + Margin) * Res)
FracSet == {0, BrightOne}

InitDraw ==
    /\ altitude \in AltSet /\ azimuth \in AzSet /\ moon_frac \in FracSet
    /\ pos = <<>>
    /\ surface = [bg |-> Night, px |-> {}]
    /\ display = [bg |-> Night, px |-> {}, it |-> 0]
    /\ pixel_calls = 0 /\ updates = 0 /\ pc = "draw" /\ iter = 1
    /\ IdleMoon /\ IdleBg /\ IdleDays

\* draw_moon(altitude, azimuth, brightness)
DrawMoon ==
    /\ pc = "draw"
    /\ pos' = MapMoonPosition(altitude, azimuth)
    /\ surface' = DrawMoonSurface(surface, altitude, azimuth, moon_frac, iter)
    /\ IF pos' = <<>>
       THEN /\ pixel_calls' = 0 /\ updates' = 0
            /\ UNCHANGED display
       ELSE /\ pixel_calls' = Len(MoonPixels(pos'[1], pos'[2]))
            /\ updates' = 1
            /\ display' = [bg |-> surface'.bg, px |-> surface'.px, it |-> iter]
    /\ pc' = "sleep"
    /\ UNCHANGED <<altitude, azimuth, moon_frac, iter>>
    /\ UNCHANGED <<moonVars, bgVars, dayVars>>

NextDraw == DrawMoon

SpecDraw == InitDraw /\ [][NextDraw]_vars

\* C5: for an altitude in (0, 90), the east extent az_east maps to the left
\* edge x = 0 and the west extent az_west to the right edge x = 52.
C5_ExtentsToEdges ==
    (pc = "sleep" /\ AltitudeValid(altitude)) =>
        /\ (azimuth = az_east) => (pos # <<>> /\ pos[1] = 0)
        /\ (azimuth = az_west) => (pos # <<>> /\ pos[1] = MaxCol)

\* The position is invalid as C8 words it.
C8_Invalid ==
    \/ altitude <= 0 \/ altitude >= AltMaxDeg * Res
    \/ (az_east < azimuth /\ azimuth < az_west)
    \/ azimuth < 0 \/ azimuth > AzMaxDeg * Res

\* C8: draw_moon draws no pixel and does not update the display when the
\* position is invalid; otherwise it draws four pixels and updates once.
C8_DrawsOnlyValid ==
    pc = "sleep" =>
        IF C8_Invalid
        THEN /\ pixel_calls = 0 /\ updates = 0
             /\ surface.px = {} /\ display.px = {}
        ELSE /\ pixel_calls = 4 /\ updates = 1
             /\ Cardinality(surface.px) = 4
             /\ display.px = surface.px

\* Just inside the west range: drawn.
C8_Witness ==
    /\ pc = "sleep" /\ azimuth = AzMaxDeg * Res /\ altitude = 1
    /\ pixel_calls = 4 /\ updates = 1

\* C9: all four pixels draw_moon writes lie inside the 53x11 grid.
C9_PixelsInGrid ==
    (pc = "sleep" /\ pos # <<>>) => \A q \in surface.px : InGrid(q)

---------------------------------------------------------------------------
(* Spec: the polling loop of src/main.py lines 148-174                     *)

MaxIter == 3

\* Line 174: utime.sleep(600)
SleepSecs == 600

\* The observer's pixel, line 163.
ObserverX == 26
ObserverY == 10

\* secrets.latitude, secrets.longitude
LoopLatSet == {-30, 60}
LoopLngSet == {135}
\* What the ephemeris gives at the polled instants.
LoopThetaSet  == {0, 90, 225, 750}
LoopSunRaSet  == {0, 180}
LoopSunDecSet == {-18, 18}
LoopRaSet     == {-90, 0, 90}
LoopDecSet    == {-18, 18}

Init ==
    /\ lat \in LoopLatSet /\ lng \in LoopLngSet
    /\ theta = 0 /\ ra = 0 /\ dec = 0 /\ sun_ra = 0 /\ sun_dec = 0
    /\ H = 0 /\ alt_deg = 0 /\ az_in = 0 /\ az_deg = 0 /\ brightness = 0
    /\ moon_pc = "idle" /\ fired_add = FALSE /\ fired_sub = FALSE
    /\ IdleBg
    /\ date = 1715904000 /\ dt = 0 /\ prev_date = 0 /\ prev_dt = 0
    /\ day_pc = "idle" /\ calls = 0
    /\ altitude = 0 /\ azimuth = 0 /\ moon_frac = 0 /\ pos = <<>>
    /\ surface = [bg |-> Night, px |-> {}]
    /\ display = [bg |-> Night, px |-> {}, it |-> 0]
    /\ pixel_calls = 0 /\ updates = 0 /\ pc = "poll" /\ iter = 1

\* Lines 151-155: the time, and the background colour for it.
Poll ==
    /\ pc = "poll"
    /\ dt' = ToDaysJ2000(date)
    /\ theta' \in LoopThetaSet
    /\ sun_ra' \in LoopSunRaSet
    /\ sun_dec' \in LoopSunDecSet
    /\ IF BackgroundRaises(lat, lng, theta', sun_ra', sun_dec')
       THEN pc' = "crashed" /\ UNCHANGED bg_color
       ELSE /\ bg_color' = GetBackgroundColor(lat, lng, theta', sun_ra',
                                              sun_dec')
            /\ pc' = "clear"
    /\ UNCHANGED <<lat, lng, ra, dec, H, alt_deg, az_in, az_deg, brightness,
                   moon_pc, fired_add, fired_sub>>
    /\ UNCHANGED <<sun_H, sun_H0, sun_alt_deg, bg_pc>>
    /\ UNCHANGED <<date, prev_date, prev_dt, day_pc, calls>>
    /\ UNCHANGED <<altitude, azimuth, moon_frac, pos, surface, display,
                   pixel_calls, updates, iter>>

\* Lines 158-164: clear to the background colour, draw the observer, push
\* the frame.
ClearAndObserver ==
    /\ pc = "clear"
    /\ surface' = SetPixel(ClearSurface(surface, bg_color),
                           ObserverX, ObserverY, ObserverPen, iter)
    /\ display' = [bg |-> surface'.bg, px |-> surface'.px, it |-> iter]
    /\ pc' = "moon"
    /\ UNCHANGED <<altitude, azimuth, moon_frac, pos, pixel_calls, updates,
                   iter>>
    /\ UNCHANGED <<moonVars, bgVars, dayVars>>

\* Line 167: the moon's position and brightness.
ComputeMoon ==
    /\ pc = "moon"
    /\ ra' \in LoopRaSet
    /\ dec' \in LoopDecSet
    /\ MoonPositionCall(lat, lng, theta, ra', dec', sun_ra, sun_dec)
    /\ IF moon_pc' = "raised"
       THEN pc' = "crashed" /\ UNCHANGED <<altitude, azimuth, moon_frac>>
       ELSE /\ altitude' = alt_deg' * Res
            /\ azimuth' = az_deg' * Res
            /\ moon_frac' = brightness'
            /\ pc' = "draw"
    /\ UNCHANGED <<lat, lng, theta, sun_ra, sun_dec>>
    /\ UNCHANGED <<pos, surface, display, pixel_calls, updates, iter>>
    /\ UNCHANGED <<bgVars, dayVars>>

\* Line 174: wait, then poll again.
Sleep ==
    /\ pc = "sleep" /\ iter < MaxIter
    /\ iter' = iter + 1
    /\ date' = date + SleepSecs
    /\ pc' = "poll"
    /\ UNCHANGED <<dt, prev_date, prev_dt, day_pc, calls>>
    /\ UNCHANGED <<altitude, azimuth, moon_frac, pos, surface, display,
                   pixel_calls, updates>>
    /\ UNCHANGED <<moonVars, bgVars>>

Next ==
    \/ Poll
    \/ ClearAndObserver
    \/ ComputeMoon
    \/ DrawMoon
    \/ Sleep

Spec == Init /\ [][Next]_vars

\* C10: in every iteration the surface is cleared to the background colour
\* and the observer's pixel drawn before the moon is drawn, so every frame
\* pushed to the display holds moon pixels of its own iteration only, at
\* most four of them.
C10_NoStaleMoonPixels ==
    /\ \A q \in MoonPx(display) : q.it = display.it
    /\ Cardinality(MoonPx(display)) <= 4
    /\ pc \in {"moon", "draw"} =>
          /\ surface.bg = bg_color
          /\ surface.px = {[x |-> ObserverX, y |-> ObserverY,
                            pen |-> ObserverPen, it |-> iter]}

\* The moon was drawn at pos in the iteration before; the surface has been
\* cleared since, and the moon is about to be drawn somewhere else.
C10_Witness ==
    /\ pc = "draw" /\ iter > 1 /\ pos # <<>> /\ updates = 1
    /\ MoonPx(surface) = {} /\ MoonPx(display) = {}
    /\ MapMoonPosition(altitude, azimuth) # <<>>
    /\ MapMoonPosition(altitude, azimuth) # pos

===========================================================================
